---- MODULE Spec2Model ----
(***************************************************************************)
(* keep_active.py: a curses menu (main thread) that starts, pauses and     *)
(* stops a background loop (start_script, one thread per session) which    *)
(* moves the pointer inside the Microsoft Teams window every `interval`    *)
(* seconds.  The threads share the module globals is_running, is_paused,   *)
(* interval, start_time, paused_time and two files in /tmp.                *)
(*                                                                         *)
(* Every step below is one access to that shared state; the threads        *)
(* interleave between steps.  Blocking calls (getch, getstr, Event.wait,   *)
(* the pause wait) are the places where a thread's position rests.         *)
(*                                                                         *)
(* The daemon thread update_elapsed_time only reads the globals and draws  *)
(* row 11; it writes none of the state below.  SIGINT is followed while    *)
(* the main thread is in the menu: the handler runs stop_script there.     *)
(***************************************************************************)
EXTENDS Integers, Sequences, FiniteSets, TLC

VARIABLES
    is_running,        \* global is_running
    is_paused,         \* global is_paused
    interval,          \* global interval
    start_time,        \* global start_time: None or <<t>>
    paused_time,       \* global paused_time: None or <<t>>
    status_updated,    \* threading.Event status_updated: TRUE when set
    controlFile,       \* /tmp/stop_keep_active exists
    logFile,           \* /tmp/keep_active.log exists at its path
    now,               \* datetime.now(), in whole seconds
    menuPc,            \* position of the main thread (menu and what it calls)
    choice,            \* menu's local `choice`, the key last read
    msg,               \* the message last drawn by a command or by the loop
    new_interval_str,  \* modify_interval's local new_interval_str
    tpc,               \* position of each start_script thread
    ti,                \* iterations left in a thread's `for _ in range(interval)`
    shutdowns,         \* per session: stop_script runs since the thread was launched
    window_id,         \* each thread's local window_id: None or the handle found,
                       \* kept from the lookup until its last read in the cycle
    last_log,          \* the record last handed to logging: <<message, arguments>>
    stop_requested     \* history: a stop, confirmed exit or SIGINT came since the last start

globals == <<is_running, is_paused, interval, start_time, paused_time>>
files   == <<controlFile, logFile>>
mainLoc == <<menuPc, choice, new_interval_str>>
loopLoc == <<tpc, ti, shutdowns>>
vars == <<is_running, is_paused, interval, start_time, paused_time, status_updated,
          controlFile, logFile, now, menuPc, choice, msg, new_interval_str,
          tpc, ti, shutdowns, window_id, last_log, stop_requested>>

----------------------------------------------------------------------------
(* Bounds of the exploration *)

\* start_script threads that can exist at once (a finished thread's slot is reused)
MaxThreads == 2
\* largest interval the command line gives in the explored runs
MaxCliInterval == 2
\* seconds the clock is followed for
MaxTime == 2

Threads == 1..MaxThreads

None == <<>>
At(t) == <<t>>

\* what `--interval` (argparse, type=int) accepts: any integer, none rejected
CliIntervals == -1..MaxCliInterval

\* keys the user may press at the menu, "x" standing for every other key
Keys == {"1", "2", "3", "4", "5", "6", "x"}
\* keys the user may press at the exit confirmation
ConfirmKeys == {"s", "x"}

\* texts the user may type at the interval prompt (getstr reads at most 10 bytes)
InputTexts ==
    { <<>>, <<"0">>, <<"1">>, <<"2">>, <<"-", "1">>, <<"+", "2">>, <<" ", "1", " ">>,
      <<"a">>, <<"1", "a">>, <<"1", ".", "0">>, <<"0", "2">>, <<"_", "1">>, <<"-">> }

----------------------------------------------------------------------------
(* int(new_interval_str): Python's integer literal of a str *)

Digits == {"0", "1", "2", "3", "4", "5", "6", "7", "8", "9"}

DigitValue(c) ==
    CASE c = "0" -> 0 [] c = "1" -> 1 [] c = "2" -> 2 [] c = "3" -> 3 [] c = "4" -> 4
      [] c = "5" -> 5 [] c = "6" -> 6 [] c = "7" -> 7 [] c = "8" -> 8 [] c = "9" -> 9

RECURSIVE StripLeft(_)
StripLeft(s) == IF s # <<>> /\ Head(s) = " " THEN StripLeft(Tail(s)) ELSE s

RECURSIVE StripRight(_)
StripRight(s) ==
    IF s # <<>> /\ s[Len(s)] = " " THEN StripRight(SubSeq(s, 1, Len(s) - 1)) ELSE s

Strip(s) == StripRight(StripLeft(s))

HasSign(s) == s # <<>> /\ Head(s) \in {"+", "-"}

Unsigned(s) == IF HasSign(s) THEN Tail(s) ELSE s

\* digits, single underscores allowed between two digits
IsDigitString(s) ==
    /\ s # <<>>
    /\ \A k \in 1..Len(s) : s[k] \in Digits \cup {"_"}
    /\ s[1] \in Digits
    /\ s[Len(s)] \in Digits
    /\ \A k \in 1..(Len(s) - 1) : ~(s[k] = "_" /\ s[k + 1] = "_")

\* int(s) does not raise ValueError
IsIntLiteral(s) == IsDigitString(Unsigned(Strip(s)))

RECURSIVE DigitsValue(_, _)
DigitsValue(s, acc) ==
    IF s = <<>> THEN acc
    ELSE IF Head(s) = "_" THEN DigitsValue(Tail(s), acc)
    ELSE DigitsValue(Tail(s), 10 * acc + DigitValue(Head(s)))

\* int(s), for an s that is an integer literal
IntOf(s) ==
    LET b == Strip(s)
        v == DigitsValue(Unsigned(b), 0)
    IN  IF HasSign(b) /\ Head(b) = "-" THEN 0 - v ELSE v

----------------------------------------------------------------------------
(* Initial state: the module globals, after __main__ stored args.interval *)

Init ==
    /\ is_running = FALSE
    /\ is_paused = FALSE
    /\ interval \in CliIntervals
    /\ start_time = None
    /\ paused_time = None
    /\ status_updated = FALSE
    /\ controlFile = FALSE
    /\ logFile = TRUE
    /\ now = 0
    /\ menuPc = "getch"
    /\ choice = ""
    /\ msg = ""
    /\ new_interval_str = <<>>
    /\ tpc = [t \in Threads |-> "idle"]
    /\ ti = [t \in Threads |-> 0]
    /\ shutdowns = [t \in Threads |-> 0]
    /\ window_id = [t \in Threads |-> None]
    /\ last_log = <<>>
    /\ stop_requested = FALSE

----------------------------------------------------------------------------
(* start_script, run by one thread per session *)

\* the handle xdotool search prints for the Teams window
Handle == <<"0x3a00007">>

\* what find_window_id returns: the first line xdotool search printed, or None
\* when xdotool search fails, as it does when no window matches
WindowIds == {None, Handle}

\* randint(a, b) gives any integer of a..b; the runs followed draw the two ends
randint(a, b) == {n \in a..b : n = a \/ n = b}

\* the test taken as always true
HasWindow_Always(w) == TRUE

\* line 173: `if window_id:`
HasWindow(w) == w # None

\* the record cleanup_files logs last: "Removed %s" for the last file it found
CleanupLog ==
    IF logFile THEN <<"Removed %s", "/tmp/keep_active.log">>
    ELSE IF controlFile THEN <<"Removed %s", "/tmp/stop_keep_active">>
    ELSE last_log

\* the thread exists and has not ended
Live(t) == tpc[t] \notin {"idle", "done", "crashed"}

\* len(range(n)): the iterations of `for _ in range(interval)`
RangeLen(n) == IF n > 0 THEN n ELSE 0

\* the condition of `while is_running and not os.path.isfile(CONTROL_FILE)`
LoopCondition == is_running /\ ~controlFile

\* the break condition inside the interval wait
WaitBreak == ~is_running \/ controlFile

\* lines 157-160: is_running = True, start_time = now, status_updated.set()
LoopStart(t) ==
    /\ tpc[t] = "start"
    /\ is_running' = TRUE
    /\ start_time' = At(now)
    /\ status_updated' = TRUE
    /\ tpc' = [tpc EXCEPT ![t] = "while"]
    /\ UNCHANGED <<is_paused, interval, paused_time, files, now, mainLoc, msg,
                   ti, shutdowns>>
    /\ UNCHANGED stop_requested
    /\ last_log' = <<"Starting script...">>
    /\ UNCHANGED window_id

\* line 162: the loop condition; on exit the thread goes to line 186
LoopWhile(t) ==
    /\ tpc[t] = "while"
    /\ tpc' = [tpc EXCEPT ![t] = IF LoopCondition THEN "pause_wait" ELSE "stop_script"]
    /\ UNCHANGED <<globals, status_updated, files, now, mainLoc, msg, ti, shutdowns>>
    /\ UNCHANGED stop_requested
    /\ last_log' = IF LoopCondition
                   THEN <<"Checking for stop file...">>
                   ELSE <<"Stop file found or script stopped. Stopping script...">>
    /\ UNCHANGED window_id

\* lines 166-167: `while is_paused: time.sleep(1)` lets the thread on only
\* when is_paused is False; nothing else is read there
LoopPauseWait(t) ==
    /\ tpc[t] = "pause_wait"
    /\ ~is_paused
    /\ tpc' = [tpc EXCEPT ![t] = "find"]
    /\ UNCHANGED <<globals, status_updated, files, now, mainLoc, msg, ti, shutdowns>>
    /\ UNCHANGED stop_requested
    /\ UNCHANGED last_log
    /\ UNCHANGED window_id

\* line 170, lines 68-81: find_window_id returns the handle, or None when
\* xdotool search fails (CalledProcessError is caught there)
LoopFind(t) ==
    /\ tpc[t] = "find"
    /\ \E w \in WindowIds : window_id' = [window_id EXCEPT ![t] = w]
    /\ tpc' = [tpc EXCEPT ![t] = "branch"]
    /\ UNCHANGED <<globals, status_updated, files, now, mainLoc, msg, ti, shutdowns,
                   last_log, stop_requested>>

\* lines 173-178: with a handle go and interact; without, log "not found",
\* show it on row 12 and go to the interval wait
LoopBranch(t) ==
    /\ tpc[t] = "branch"
    /\ IF HasWindow(window_id[t])
       THEN /\ tpc' = [tpc EXCEPT ![t] = "interact"]
            /\ UNCHANGED <<msg, ti, last_log>>
       ELSE /\ tpc' = [tpc EXCEPT ![t] = "wait"]
            /\ ti' = [ti EXCEPT ![t] = RangeLen(interval)]
            /\ last_log' = <<"Window not found!">>
            /\ msg' = "Microsoft Teams window not found. Retrying..."
    /\ UNCHANGED <<globals, status_updated, files, now, mainLoc, shutdowns,
                   window_id, stop_requested>>

\* where the thread is after interact_with_window: subprocess.run(check=True)
\* raises CalledProcessError when xdotool mousemove fails, and neither
\* interact_with_window nor start_script catches it: the thread ends there
AfterInteract(ok) == IF ok THEN "wait" ELSE "crashed"

\* line 174, lines 83-88: x and y drawn, xdotool mousemove run, and the
\* interaction logged with its coordinates when mousemove succeeded
LoopInteract(t) ==
    /\ tpc[t] = "interact"
    /\ \E ok \in BOOLEAN, x \in randint(50, 250), y \in randint(50, 250) :
         /\ tpc' = [tpc EXCEPT ![t] = AfterInteract(ok)]
         /\ ti' = [ti EXCEPT ![t] = IF ok THEN RangeLen(interval) ELSE 0]
         /\ last_log' = IF ok
                        THEN <<"Interacting with window ID %s at (%d, %d)",
                               window_id[t], x, y>>
                        ELSE last_log
    /\ window_id' = [window_id EXCEPT ![t] = None]
    /\ UNCHANGED <<globals, status_updated, files, now, mainLoc, msg, shutdowns,
                   stop_requested>>

\* lines 181-184: one iteration of the interval wait (break, or sleep 1 s),
\* or the end of the for loop
LoopWait(t) ==
    /\ tpc[t] = "wait"
    /\ IF ti[t] > 0 /\ ~WaitBreak
       THEN /\ ti' = [ti EXCEPT ![t] = ti[t] - 1]
            /\ UNCHANGED tpc
       ELSE /\ ti' = [ti EXCEPT ![t] = 0]
            /\ tpc' = [tpc EXCEPT ![t] = "while"]
    /\ UNCHANGED <<globals, status_updated, files, now, mainLoc, msg, shutdowns>>
    /\ UNCHANGED stop_requested
    /\ UNCHANGED last_log
    /\ UNCHANGED window_id

\* lines 186-187, 93-94: stop_script called by the thread: is_running = False
LoopStopScript(t) ==
    /\ tpc[t] = "stop_script"
    /\ is_running' = FALSE
    /\ shutdowns' = [shutdowns EXCEPT ![t] = shutdowns[t] + 1]
    /\ tpc' = [tpc EXCEPT ![t] = "cleanup"]
    /\ UNCHANGED <<is_paused, interval, start_time, paused_time, status_updated,
                   files, now, mainLoc, msg, ti>>
    /\ UNCHANGED stop_requested
    /\ last_log' = <<"Stopping script...">>
    /\ UNCHANGED window_id

\* lines 95-96, 98-106: cleanup_files removes both files, then sys.exit(0)
\* raises SystemExit in the thread, which ends this thread only
LoopCleanup(t) ==
    /\ tpc[t] = "cleanup"
    /\ controlFile' = FALSE
    /\ logFile' = FALSE
    /\ tpc' = [tpc EXCEPT ![t] = "done"]
    /\ UNCHANGED <<globals, status_updated, now, mainLoc, msg, ti, shutdowns>>
    /\ UNCHANGED stop_requested
    /\ last_log' = CleanupLog
    /\ UNCHANGED window_id

LoopStep(t) ==
    \/ LoopStart(t)
    \/ LoopWhile(t)
    \/ LoopPauseWait(t)
    \/ LoopFind(t)
    \/ LoopBranch(t)
    \/ LoopInteract(t)
    \/ LoopWait(t)
    \/ LoopStopScript(t)
    \/ LoopCleanup(t)

----------------------------------------------------------------------------
(* get_elapsed_time, drawn on row 11 by menu and by update_elapsed_time *)

\* the seconds of a timestamp
TimeOf(ts) == ts[1]

\* the elapsed time with the paused part left in
ElapsedSeconds_NoPause == now - TimeOf(start_time)

\* lines 198-199: `if paused_time: elapsed_time -= current_time - paused_time`
PausedPart == IF paused_time # None THEN now - TimeOf(paused_time) ELSE 0

\* lines 195-199: the timedelta, in seconds
ElapsedSeconds == (now - TimeOf(start_time)) - PausedPart

\* line 200: str(timedelta).split('.')[0]; a timedelta is kept as days and
\* a non-negative rest, so the text is "[-D day(s), ]H:MM:SS": <<D, H, MM, SS>>
FormatDelta(sec) ==
    LET days == sec \div 86400
        rest == sec % 86400
    IN  <<days, rest \div 3600, (rest % 3600) \div 60, rest % 60>>

\* lines 189-200
get_elapsed_time ==
    IF start_time = None THEN <<"N/A">> ELSE FormatDelta(ElapsedSeconds)

----------------------------------------------------------------------------
(* menu, run by the main thread, and what it calls *)

\* slots holding no thread
FreeSlots == {t \in Threads : ~Live(t)}

\* the slot the next threading.Thread(target=start_script) takes
NewThread == CHOOSE t \in FreeSlots : \A u \in FreeSlots : t <= u

\* line 256: `if is_running:` of choice 1
StartRefused == is_running

\* line 266: `if not is_running:` of choice 2
StopRefused == ~is_running

\* the toggle without its test
PauseAllowed_Always == TRUE

\* line 282: `if is_running:` of choice 5
PauseAllowed == is_running

\* line 295: `if is_running:` of choice 6
ExitNeedsConfirm == is_running

\* line 300: `if confirm_exit == ord('s'):`
ExitConfirmed(key) == key = "s"

\* line 131: `if is_running or is_paused:` of modify_interval
ModifyRefused == is_running \/ is_paused

\* the test with >= written for >
IntervalAccepted_NonNegative(n) == n >= 0

\* line 143: `if new_interval > 0:`
IntervalAccepted(n) == n > 0

\* lines 255-263, choice 1: refuse, or launch the thread and go wait for the event
MenuStart ==
    /\ menuPc = "getch"
    /\ choice' = "1"
    /\ IF StartRefused
       THEN /\ msg' = "The script is already running."
            /\ menuPc' = "render"
            /\ UNCHANGED <<tpc, shutdowns>>
       ELSE /\ FreeSlots # {}
            /\ msg' = "Starting script..."
            /\ tpc' = [tpc EXCEPT ![NewThread] = "start"]
            /\ shutdowns' = [shutdowns EXCEPT ![NewThread] = 0]
            /\ menuPc' = "wait_event"
    /\ UNCHANGED <<globals, status_updated, files, now, new_interval_str, ti>>
    /\ stop_requested' = (StartRefused /\ stop_requested)
    /\ UNCHANGED last_log
    /\ UNCHANGED window_id

\* a wait that returns at once
EventWait_NoBlock(flag) == TRUE

\* threading.Event.wait(): returns once the flag is set
EventWait(flag) == flag

\* lines 262-263: status_updated.wait(), then status_updated.clear()
MenuWaitEvent ==
    /\ menuPc = "wait_event"
    /\ EventWait(status_updated)
    /\ status_updated' = FALSE
    /\ menuPc' = "render"
    /\ UNCHANGED <<globals, files, now, choice, msg, new_interval_str, loopLoc>>
    /\ UNCHANGED stop_requested
    /\ UNCHANGED last_log
    /\ UNCHANGED window_id

\* lines 265-267, choice 2: the test of is_running
MenuStop ==
    /\ menuPc = "getch"
    /\ choice' = "2"
    /\ IF StopRefused
       THEN /\ msg' = "The script is not running."
            /\ menuPc' = "render"
       ELSE /\ msg' = msg
            /\ menuPc' = "stop_create"
    /\ UNCHANGED <<globals, status_updated, files, now, new_interval_str, loopLoc>>
    /\ UNCHANGED stop_requested
    /\ UNCHANGED last_log
    /\ UNCHANGED window_id

\* lines 269-271: open(CONTROL_FILE, 'w') creates the stop file
MenuStopCreate ==
    /\ menuPc = "stop_create"
    /\ controlFile' = TRUE
    /\ msg' = "Stop file created. Script will stop soon."
    /\ menuPc' = "render"
    /\ UNCHANGED <<globals, status_updated, logFile, now, choice, new_interval_str,
                   loopLoc>>
    /\ stop_requested' = TRUE
    /\ UNCHANGED last_log
    /\ UNCHANGED window_id

\* lines 275-276, 111-125, choice 3: display_log draws the log or the notice
MenuDisplayLog ==
    /\ menuPc = "getch"
    /\ choice' = "3"
    /\ msg' = IF logFile THEN "" ELSE "Log file does not exist. No logs to display."
    /\ menuPc' = "display_log"
    /\ UNCHANGED <<globals, status_updated, files, now, new_interval_str, loopLoc>>
    /\ UNCHANGED stop_requested
    /\ UNCHANGED last_log
    /\ UNCHANGED window_id

\* line 126: the key that leaves display_log
MenuDisplayLogKey ==
    /\ menuPc = "display_log"
    /\ menuPc' = "render"
    /\ UNCHANGED <<globals, status_updated, files, now, choice, msg, new_interval_str,
                   loopLoc>>
    /\ UNCHANGED stop_requested
    /\ UNCHANGED last_log
    /\ UNCHANGED window_id

\* lines 278-279, 131-138, choice 4: modify_interval refuses or prompts
MenuModify ==
    /\ menuPc = "getch"
    /\ choice' = "4"
    /\ IF ModifyRefused
       THEN /\ msg' = "Cannot modify interval while the script is running or paused."
            /\ menuPc' = "press_enter"
       ELSE /\ msg' = "Enter new interval time in seconds (positive integer): "
            /\ menuPc' = "getstr"
    /\ UNCHANGED <<globals, status_updated, files, now, new_interval_str, loopLoc>>
    /\ UNCHANGED stop_requested
    /\ UNCHANGED last_log
    /\ UNCHANGED window_id

\* line 139: getstr returns what the user typed
MenuGetstr ==
    /\ menuPc = "getstr"
    /\ \E text \in InputTexts : new_interval_str' = text
    /\ menuPc' = "parse"
    /\ UNCHANGED <<globals, status_updated, files, now, choice, msg, loopLoc>>
    /\ UNCHANGED stop_requested
    /\ UNCHANGED last_log
    /\ UNCHANGED window_id

\* lines 141-149: int(), the test of the sign, the assignment
MenuParse ==
    /\ menuPc = "parse"
    /\ IF IsIntLiteral(new_interval_str)
       THEN IF IntervalAccepted(IntOf(new_interval_str))
            THEN /\ interval' = IntOf(new_interval_str)
                 /\ msg' = "Interval set."
            ELSE /\ interval' = interval
                 /\ msg' = "Invalid input. Interval must be a positive integer."
       ELSE /\ interval' = interval
            /\ msg' = "Invalid input. Interval not changed."
    /\ menuPc' = "press_enter"
    /\ UNCHANGED <<is_running, is_paused, start_time, paused_time, status_updated,
                   files, now, choice, new_interval_str, loopLoc>>
    /\ UNCHANGED stop_requested
    /\ UNCHANGED last_log
    /\ UNCHANGED window_id

\* lines 150-152: the key that leaves modify_interval; its locals end here
MenuPressEnter ==
    /\ menuPc = "press_enter"
    /\ new_interval_str' = <<>>
    /\ menuPc' = "render"
    /\ UNCHANGED <<globals, status_updated, files, now, choice, msg, loopLoc>>
    /\ UNCHANGED stop_requested
    /\ UNCHANGED last_log
    /\ UNCHANGED window_id

\* lines 281-282, 289-290, choice 5: the test of is_running
MenuPause ==
    /\ menuPc = "getch"
    /\ choice' = "5"
    /\ IF PauseAllowed
       THEN /\ msg' = msg
            /\ menuPc' = "toggle"
       ELSE /\ msg' = "Script is not running. Cannot pause/resume."
            /\ menuPc' = "render"
    /\ UNCHANGED <<globals, status_updated, files, now, new_interval_str, loopLoc>>
    /\ UNCHANGED stop_requested
    /\ UNCHANGED last_log
    /\ UNCHANGED window_id

\* lines 283-288: is_paused = not is_paused, paused_time set or cleared
MenuToggle ==
    /\ menuPc = "toggle"
    /\ is_paused' = ~is_paused
    /\ paused_time' = IF is_paused' THEN At(now) ELSE None
    /\ msg' = IF is_paused' THEN "Script paused." ELSE "Script resumed."
    /\ menuPc' = "render"
    /\ UNCHANGED <<is_running, interval, start_time, status_updated, files, now,
                   choice, new_interval_str, loopLoc>>
    /\ UNCHANGED stop_requested
    /\ UNCHANGED last_log
    /\ UNCHANGED window_id

\* lines 294-298, 310-314, choice 6: ask for the confirmation, or stop and exit
MenuExit ==
    /\ menuPc = "getch"
    /\ choice' = "6"
    /\ IF ExitNeedsConfirm
       THEN /\ msg' = "The script is running. Please stop it first."
            /\ menuPc' = "confirm"
       ELSE /\ msg' = "Exiting. The script will stop."
            /\ menuPc' = "stop_script"
    /\ UNCHANGED <<globals, status_updated, files, now, new_interval_str, loopLoc>>
    /\ UNCHANGED stop_requested
    /\ UNCHANGED last_log
    /\ UNCHANGED window_id

\* lines 299-307: 's' creates the stop file, clears is_running and calls
\* stop_script; any other key returns to the menu
MenuConfirm ==
    /\ menuPc = "confirm"
    /\ \E key \in ConfirmKeys :
         IF ExitConfirmed(key)
         THEN /\ controlFile' = TRUE
              /\ is_running' = FALSE
              /\ msg' = "Stop file created. Script will stop soon."
              /\ menuPc' = "stop_script"
              /\ stop_requested' = TRUE
         ELSE /\ menuPc' = "render"
              /\ UNCHANGED <<controlFile, is_running, msg, stop_requested>>
    /\ UNCHANGED <<is_paused, interval, start_time, paused_time, status_updated,
                   logFile, now, choice, new_interval_str, loopLoc>>
    /\ UNCHANGED last_log
    /\ UNCHANGED window_id

\* lines 318-321: any other key
MenuInvalid ==
    /\ menuPc = "getch"
    /\ choice' = "x"
    /\ msg' = "Invalid choice. Please try again."
    /\ menuPc' = "render"
    /\ UNCHANGED <<globals, status_updated, files, now, new_interval_str, loopLoc>>
    /\ UNCHANGED stop_requested
    /\ UNCHANGED last_log
    /\ UNCHANGED window_id

\* lines 226-253: back at the top of `while True`: stdscr.clear() wipes the
\* status line, the menu is drawn again and getch waits for the next key
MenuRender ==
    /\ menuPc = "render"
    /\ msg' = ""
    /\ choice' = ""
    /\ menuPc' = "getch"
    /\ UNCHANGED <<globals, status_updated, files, now, new_interval_str, loopLoc>>
    /\ UNCHANGED stop_requested
    /\ UNCHANGED last_log
    /\ UNCHANGED window_id

\* line 109: SIGINT runs stop_script in the main thread, wherever the menu is
Interrupt ==
    /\ menuPc \notin {"stop_script", "cleanup", "exited"}
    /\ menuPc' = "stop_script"
    /\ UNCHANGED <<globals, status_updated, files, now, choice, msg, new_interval_str,
                   loopLoc>>
    /\ stop_requested' = TRUE
    /\ UNCHANGED last_log
    /\ UNCHANGED window_id

\* lines 90-94: stop_script in the main thread: is_running = False
MainStopScript ==
    /\ menuPc = "stop_script"
    /\ is_running' = FALSE
    /\ shutdowns' = [t \in Threads |-> IF Live(t) THEN shutdowns[t] + 1 ELSE shutdowns[t]]
    /\ menuPc' = "cleanup"
    /\ UNCHANGED <<is_paused, interval, start_time, paused_time, status_updated,
                   files, now, choice, msg, new_interval_str, tpc, ti>>
    /\ UNCHANGED stop_requested
    /\ last_log' = <<"Stopping script...">>
    /\ UNCHANGED window_id

\* lines 95-96: cleanup_files, then sys.exit(0) raises SystemExit in the main
\* thread: the menu is left (the join and the break after it are never
\* reached) and the interpreter waits for the start_script threads, which
\* are not daemon threads (line 261)
MainCleanup ==
    /\ menuPc = "cleanup"
    /\ controlFile' = FALSE
    /\ logFile' = FALSE
    /\ menuPc' = "exited"
    /\ UNCHANGED <<globals, status_updated, now, choice, msg, new_interval_str,
                   loopLoc>>
    /\ UNCHANGED stop_requested
    /\ last_log' = CleanupLog
    /\ UNCHANGED window_id

\* the steps the main thread takes without waiting for the user
MainExit == MainStopScript \/ MainCleanup

MenuStep ==
    \/ MenuStart
    \/ MenuWaitEvent
    \/ MenuStop
    \/ MenuStopCreate
    \/ MenuDisplayLog
    \/ MenuDisplayLogKey
    \/ MenuModify
    \/ MenuGetstr
    \/ MenuParse
    \/ MenuPressEnter
    \/ MenuPause
    \/ MenuToggle
    \/ MenuExit
    \/ MenuConfirm
    \/ MenuInvalid
    \/ MenuRender

\* a second of wall-clock time passes
Tick ==
    /\ now < MaxTime
    /\ now' = now + 1
    /\ UNCHANGED <<globals, status_updated, files, mainLoc, msg, loopLoc>>
    /\ UNCHANGED stop_requested
    /\ UNCHANGED last_log
    /\ UNCHANGED window_id

\* the process has ended: the main thread left and no start_script thread lives
Terminated == menuPc = "exited" /\ \A t \in Threads : ~Live(t)

Next ==
    \/ \E t \in Threads : LoopStep(t)
    \/ MenuStep
    \/ Interrupt
    \/ MainExit
    \/ Tick

Spec == Init /\ [][Next]_vars

----------------------------------------------------------------------------
(* The claims *)

\* a step of the process that waits for no key: the main thread leaving, or
\* a start_script thread moving on
ProcessStep == MainExit \/ \E t \in Threads : LoopStep(t)

\* C1: in every reachable state paused is true only if running is true
\* (stated for the states in which the menu waits for a command and no loop
\* thread is left).
C1_PausedOnlyWhileRunning ==
    (menuPc = "getch" /\ \A t \in Threads : ~Live(t)) => (is_paused => is_running)

\* C2: a stop issued while running and paused ends the loop without a
\* resume: when the stop command has just created the stop file, a thread
\* resting in the pause wait is able to go on (the pause wait observes the
\* stop condition).
C2_PauseWaitObservesStop ==
    \A t \in Threads :
        ( /\ menuPc = "render" /\ choice = "2" /\ controlFile
          /\ tpc[t] = "pause_wait" /\ is_running /\ is_paused )
            => ENABLED LoopStep(t)

\* C3: a stop issued while running and not paused is observed by the loop,
\* which leaves and clears running: while that stop request is pending
\* (stop file present, running, not paused) a loop thread exists to observe it.
C3_StopIsObserved ==
    (is_running /\ controlFile /\ ~is_paused) => \E t \in Threads : Live(t)

\* C4: a failed lookup or pointer move never ends the loop: a thread that
\* attempts the interaction is alive after the attempt.
C4_FailureKeepsLoop ==
    [][\A t \in Threads : tpc[t] = "interact" => Live(t)']_vars

\* C5: in state Stopped (a shutdown has completed, no loop thread is alive,
\* the menu waits for a command) the stop file is absent.
C5_NoStopFileWhenStopped ==
    ( /\ ~is_running
      /\ menuPc = "getch"
      /\ \A t \in Threads : ~Live(t)
      /\ \E t \in Threads : tpc[t] = "done" )
        => ~controlFile

\* C6: the shutdown sequence runs exactly once per session: never twice, and
\* once when the loop thread has ended by leaving its loop.
C6_ShutdownExactlyOnce ==
    \A t \in Threads :
        /\ shutdowns[t] <= 1
        /\ tpc[t] = "done" => shutdowns[t] = 1

\* C7: once the exit is accepted or the interrupt handled, the process
\* terminates: until it has, some thread of it can take a step.
C7_ExitNeverStuck ==
    menuPc \in {"stop_script", "cleanup", "exited"}
        => (Terminated \/ ENABLED ProcessStep)

C9_IntervalPositive == interval >= 1

\* a key read at the menu that the current state refuses
RefusedCommand ==
    /\ menuPc = "getch"
    /\ \/ choice' = "1" /\ is_running
       \/ choice' = "2" /\ ~is_running
       \/ choice' = "5" /\ ~is_running

\* a key other than the confirmation key read at the exit confirmation
RefusedConfirm == menuPc = "confirm" /\ menuPc' \notin {"confirm", "stop_script"}

\* C10: a command that is invalid for the current state ends at once and
\* leaves running, paused, interval, startedAt, pausedAt, the stop file and
\* the set of threads as they were.
C10_RefusedChangesNothing ==
    [][ (RefusedCommand \/ RefusedConfirm) =>
            /\ menuPc' = "render"
            /\ UNCHANGED <<is_running, is_paused, interval, start_time, paused_time,
                           controlFile, tpc>>
      ]_vars

\* C10's case: start was refused while a session runs
C10_Witness ==
    /\ menuPc = "render"
    /\ choice = "1"
    /\ msg = "The script is already running."
    /\ is_running
    /\ \E t \in Threads : Live(t)


\* C11: running goes from false to true only by the thread a start command
\* launched, and from true to false only when a stop command, a confirmed
\* exit or an interrupt was issued since the most recent start.
C11_RunningFollowsCommands ==
    [][ /\ (~is_running /\ is_running') =>
            \E t \in Threads : tpc[t] = "start" /\ tpc'[t] # "start"
        /\ (is_running /\ ~is_running') => stop_requested'
      ]_vars


\* C12: while a session is paused the elapsed-time readout does not advance:
\* no step of a running session that ends paused changes it, the pause
\* command included (so the value stays the one at the moment of the pause).
C12_PausedElapsedConstant ==
    [][(is_running /\ is_paused') => get_elapsed_time' = get_elapsed_time]_vars

\* C12's case: a session started, later paused, and time went on since
C12_Witness ==
    /\ is_running /\ is_paused
    /\ start_time # None /\ paused_time # None
    /\ TimeOf(start_time) < TimeOf(paused_time)
    /\ TimeOf(paused_time) < now
    /\ get_elapsed_time = <<0, 0, 0, 1>>


\* the record interact_with_window logs, with coordinates inside [50, 250]
InteractionLogged(log, w) ==
    /\ Len(log) = 4
    /\ log[1] = "Interacting with window ID %s at (%d, %d)"
    /\ log[2] = w
    /\ log[3] \in 50..250 /\ log[4] \in 50..250

\* C13: interaction is invoked exactly when the lookup returned a handle: a
\* cycle whose lookup found the window goes on to one interaction, logged with
\* x and y inside [50, 250] when the pointer move succeeds, and a cycle whose
\* lookup found nothing invokes no interaction and records "Window not found!".
C13_InteractIffHandle ==
    [][\A t \in Threads :
         /\ (tpc[t] = "branch" /\ tpc'[t] # "branch") =>
               IF window_id[t] = Handle
               THEN tpc'[t] = "interact" /\ last_log' = last_log
               ELSE tpc'[t] = "wait" /\ last_log' = <<"Window not found!">>
         /\ (tpc[t] # "interact" /\ tpc'[t] = "interact") =>
               tpc[t] = "branch" /\ window_id[t] = Handle
         /\ (tpc[t] = "interact" /\ tpc'[t] = "wait") =>
               InteractionLogged(last_log', window_id[t])
       ]_vars

C13_Witness ==
    \E t \in Threads :
        /\ tpc[t] = "wait" /\ is_running /\ ~is_paused
        /\ InteractionLogged(last_log, Handle)
        /\ last_log[3] = 250 /\ last_log[4] = 50


\* the records of a session's transitions: loop start, stop, window not found,
\* interaction
SessionRecord(log) ==
    \/ log \in {<<"Starting script...">>, <<"Window not found!">>,
                <<"Stop file found or script stopped. Stopping script...">>,
                <<"Stopping script...">>}
    \/ InteractionLogged(log, Handle)

\* C14: every transition a session logs is appended to the log file at its
\* path, also in a session started after an earlier shutdown removed the file:
\* while the menu is up, a step that logs such a record leaves the file there
\* for the viewer to read.
C14_LoggedRecordInFile ==
    [][ ( /\ menuPc \notin {"stop_script", "cleanup", "exited"}
          /\ last_log' # last_log
          /\ SessionRecord(last_log') ) => logFile'
      ]_vars


\* the thread is inside the loop body: past the test of line 162 and not yet
\* at the call of stop_script of line 187
InBody(t) == tpc[t] \in {"pause_wait", "find", "branch", "interact", "wait"}

\* C15: at most one thread is inside the loop body at any time, and when the
\* menu reads a key no launched thread is still short of setting is_running:
\* the start command has waited for it, so a second start command is refused.
C15_OneLoopInBody ==
    /\ Cardinality({t \in Threads : InBody(t)}) <= 1
    /\ menuPc = "getch" => \A t \in Threads : tpc[t] # "start"

C15_Witness ==
    /\ menuPc = "render" /\ choice = "1"
    /\ msg = "The script is already running."
    /\ Cardinality({t \in Threads : Live(t)}) = 1
    /\ \E t \in Threads : InBody(t)


\* C16: while a running session is paused the loop invokes neither the window
\* lookup nor the pointer move, wherever in its cycle the pause command found it.
C16_NoInteractionWhilePaused ==
    [][\A t \in Threads :
         (is_running /\ is_paused) =>
             /\ ~(tpc[t] = "find" /\ tpc'[t] # "find")
             /\ ~(tpc[t] = "interact" /\ tpc'[t] # "interact")
      ]_vars


\* C17: whenever start_time is set the elapsed time is not negative, and
\* paused_time, when set, is not earlier than start_time, across sessions too.
C17_ElapsedNonNegative ==
    start_time # None =>
        /\ ElapsedSeconds >= 0
        /\ paused_time # None => TimeOf(paused_time) >= TimeOf(start_time)


\* C18: the interval wait that separates two consecutive lookups is made of
\* exactly `interval` one-second sleeps: it starts with interval sleeps to do,
\* each of its steps that stays in the wait is one sleep, and it ends before
\* they are all done only when is_running is false or the stop file exists.
C18_IntervalSleeps ==
    [][\A t \in Threads :
         /\ (tpc[t] \in {"branch", "interact"} /\ tpc'[t] = "wait") =>
                ti'[t] = interval
         /\ (tpc[t] = "wait" /\ tpc'[t] = "wait" /\ ti'[t] # ti[t]) =>
                ti'[t] = ti[t] - 1
         /\ (tpc[t] = "wait" /\ tpc'[t] # "wait") =>
                ti[t] = 0 \/ WaitBreak
      ]_vars

====
